---- MODULE Spec2Model ----
(***************************************************************************)
(* Model of the Streamlit order-processing page in src/main.py: the        *)
(* session ledger (st.session_state.orders, internal_tracking_counter),    *)
(* the sidebar configuration, the extract button handler and the order     *)
(* history display.  One script run (a Streamlit rerun caused by a widget  *)
(* interaction) is one action, except that the extract handler is split    *)
(* at the return of save_order_to_state, where the saved entry and the     *)
(* local extracted_data refer to the same dict object.                     *)
(***************************************************************************)
EXTENDS Integers, Sequences, FiniteSets, TLC

\* ---------------------------------------------------------------- bounds
\* Order identifiers the model service may return: "PO-1" .. "PO-<MaxOrderId>".
MaxOrderId == 2

\* -------------------------------------------------- JSON values (json.loads)
Null == [t |-> "null"]
Str(s) == [t |-> "str", s |-> s]
Num(n) == [t |-> "int", n |-> n]
List(e) == [t |-> "list", e |-> e]
Dict(d) == [t |-> "dict", d |-> d]

\* Python truthiness of a parsed JSON value (`if extracted_data:`, `if items_list:`).
Truthy(v) ==
  CASE v.t = "null" -> FALSE
    [] v.t = "str" -> v.s # ""
    [] v.t = "int" -> v.n # 0
    [] v.t = "list" -> Len(v.e) > 0
    [] v.t = "dict" -> DOMAIN v.d # {}

\* dict.get(key, default): the value under key, else default.
DictGetDefault(d, k, default) == IF k \in DOMAIN d.d THEN d.d[k] ELSE default

\* dict.get(key): None when the key is absent.
DictGet(d, k) == DictGetDefault(d, k, Null)

\* ----------------------------------------------------------- tracking number
DigitChars == <<"0", "1", "2", "3", "4", "5", "6", "7", "8", "9">>

RECURSIVE Digits(_)
\* Decimal digits of a natural number, most significant first.
Digits(n) == IF n < 10 THEN DigitChars[n + 1]
             ELSE Digits(n \div 10) \o DigitChars[(n % 10) + 1]

RECURSIVE NumDigits(_)
NumDigits(n) == IF n < 10 THEN 1 ELSE 1 + NumDigits(n \div 10)

RECURSIVE Zeros(_)
Zeros(k) == IF k <= 0 THEN "" ELSE "0" \o Zeros(k - 1)

\* Format spec `06d`.
Format06d(n) == Zeros(6 - NumDigits(n)) \o Digits(n)

\* Python format spec `07d`: zero-padded to a minimum width of 7.
Format07d(n) == Zeros(7 - NumDigits(n)) \o Digits(n)

\* f"ITN-{counter:07d}"
FormatTrackingNumber(n) == "ITN-" \o Format07d(n)

\* Python format spec `,` applied by f"{total:,}": defined for numbers only.
\* None raises TypeError, a str raises ValueError.
FormatThousands(v) ==
  CASE v.t = "int" -> "ok"
    [] v.t = "null" -> "TypeError"
    [] v.t = "str" -> "ValueError"
    [] OTHER -> "TypeError"

\* A value standing for a raised Python exception, propagated by the caller.
Raise(exc) == [t |-> "raise", exc |-> exc]

\* --------------------------------------------------- responses of the service
\* Marks a key the response leaves out; never stored in a dict.
Absent == [t |-> "absent"]

OrderIdStrings == {"PO-" \o ToString(n) : n \in 1..MaxOrderId}

\* What the service may put under "order_id": nothing, null, or a string.
OrderIdChoices == {Absent, Null} \cup {Str(s) : s \in OrderIdStrings}

\* One entry of "items", as the JSON schema of PROMPT_TEMPLATE describes it.
SampleItem ==
  Dict([k \in {"product_name", "quantity", "unit_price"} |->
          CASE k = "product_name" -> Str("A4 Copy Paper")
            [] k = "quantity" -> Num(10)
            [] k = "unit_price" -> Num(3000)])

OtherFields == {"order_date", "customer_name", "total_amount", "delivery_address", "items"}

\* How completely the service fills the fields other than order_id: "full"
\* has every field; "partial" has order_date, total_amount and items null
\* ("Use null for any item that does not exist") and leaves customer_name and
\* delivery_address out.
Profiles == {"full", "partial"}

ProfileKeys(p) ==
  IF p = "full" THEN OtherFields ELSE {"order_date", "total_amount", "items"}

ProfileValue(p, k) ==
  IF p = "partial" THEN Null
  ELSE CASE k = "order_date" -> Str("2025-09-01")
         [] k = "customer_name" -> Str("Order Co., Ltd.")
         [] k = "total_amount" -> Num(45000)
         [] k = "delivery_address" -> Str("Chiyoda-ku, Tokyo, 100-0001")
         [] k = "items" -> List(<<SampleItem>>)

\* The JSON object with order_id as chosen and the other fields per profile.
CandidateDict(id, p) ==
  LET keys == (IF id = Absent THEN {} ELSE {"order_id"}) \cup ProfileKeys(p)
  IN Dict([k \in keys |-> IF k = "order_id" THEN id ELSE ProfileValue(p, k)])

\* The JSON text "{}".
EmptyObject == Dict([k \in {} |-> Null])

DictResponses ==
  {EmptyObject} \cup {CandidateDict(id, p) : id \in OrderIdChoices, p \in Profiles}

\* JSON texts that parse to something other than an object.
NonDictResponses == {Null, Num(0), List(<<>>), List(<<SampleItem>>), Str("no order found")}

\* What client.models.generate_content followed by json.loads can do: raise
\* (service error, text that is not JSON) or return the parsed value.
ServiceOutcomes ==
  {[kind |-> "service_error", value |-> Null], [kind |-> "not_json", value |-> Null]}
    \cup {[kind |-> "json", value |-> v] : v \in DictResponses \cup NonDictResponses}

\* datetime.datetime.now().strftime("%Y-%m-%d %H:%M:%S") at the moments of the model.
TimeStamps == {"2025-09-01 10:00:00"}

\* ------------------------------------------------------------------ state
VARIABLES
  orders,                     \* st.session_state.orders
  internal_tracking_counter,  \* st.session_state.internal_tracking_counter
  GEMINI_API_KEY,             \* st.session_state.GEMINI_API_KEY
  gemini_client,              \* st.session_state['gemini_client']: "absent", "None" or "client"
  recipient_email,            \* st.session_state.recipient_email
  heap,                       \* the dict objects json.loads returned that are still referenced
  extracted_data,             \* the handler's local: address in heap, 0 when unbound
  pc,                         \* position of the script run: "idle" between runs, "saved" at line 187
  trigger,                    \* the widget interaction that started the current (or last) run
  shown,                      \* the elements the current (or last) run has rendered
  call,                       \* the call of save_order_to_state made by the run
  raised,                     \* the uncaught exception that ended the run, "none" otherwise
  df_items,                   \* the item table passed to st.dataframe at line 224
  display_data                \* the history rows passed to st.dataframe at line 267

vars == <<orders, internal_tracking_counter, GEMINI_API_KEY, gemini_client, recipient_email,
          heap, extracted_data, pc, trigger, shown, call, raised, df_items, display_data>>

ApiKeyInputs == {"", "secret-key"}
RecipientInputs == {"relation@example.com", "sales@example.com"}
EmailInputs == {"", "Subject: Order (Order No: PO-20250901)"}

NoCall == [called |-> FALSE, returned |-> FALSE, order_id |-> Null, ok |-> FALSE, itn |-> ""]

\* ---------------------------------------------------- save_order_to_state
\* The scan looking at the newest entry only.
HasDuplicateLastOnly(os, order_id) == Len(os) > 0 /\ os[Len(os)].order_id = order_id

\* The scan skipped for a candidate without an order_id.
HasDuplicateSkipNone(os, order_id) ==
  order_id # Null /\ \E i \in 1..Len(os) : os[i].order_id = order_id

\* any(order['order_id'] == order_id for order in st.session_state.orders)
HasDuplicate(os, order_id) == \E i \in 1..Len(os) : os[i].order_id = order_id

\* Subscription extracted_data[k] in place of .get(k).
SavedFieldIndex(data, k) == IF k \in DOMAIN data.d THEN data.d[k] ELSE Raise("KeyError")

\* The extracted_data.get(...) expressions that fill data_to_save.
SavedField(data, k) == DictGet(data, k)

\* The dict literal data_to_save; raw_json is a reference to extracted_data.
DataToSave(data, ref, order_id, itn, now) ==
  [order_id |-> order_id,
   internal_tracking_number |-> itn,
   order_date |-> SavedField(data, "order_date"),
   customer_name |-> SavedField(data, "customer_name"),
   total_amount |-> SavedField(data, "total_amount"),
   delivery_address |-> SavedField(data, "delivery_address"),
   extraction_time |-> now,
   raw_json |-> ref]

\* The exception, if any, that evaluating the dict literal raises.
DataToSaveRaises(rec) ==
  LET bad == {k \in {"order_date", "customer_name", "total_amount", "delivery_address"} :
                rec[k].t = "raise"}
  IN IF bad = {} THEN "none" ELSE (CHOOSE k \in bad : TRUE) \o ": KeyError"

\* Lines 62-63: the warning and the return of the duplicate branch.
RejectDuplicateCounting(os, counter, order_id) ==
  [orders |-> os, counter |-> counter + 1, raised |-> "none", warned |-> TRUE,
   call |-> [called |-> TRUE, returned |-> TRUE, order_id |-> order_id, ok |-> FALSE,
             itn |-> "Not Assigned (Duplicate Order)"]]

RejectDuplicate(os, counter, order_id) ==
  [orders |-> os, counter |-> counter, raised |-> "none", warned |-> TRUE,
   call |-> [called |-> TRUE, returned |-> TRUE, order_id |-> order_id, ok |-> FALSE,
             itn |-> "Not Assigned (Duplicate Order)"]]

\* save_order_to_state(extracted_data), with the session state it reads passed
\* in and the session state it leaves passed out.  `data` is the object at
\* address `ref`.  Statements take effect in program order: an exception leaves
\* the effects of the statements before it in place.
save_order_to_state(os, counter, data, ref, now) ==
  IF data.t # "dict"
  THEN \* line 58: .get on a list, str or number
       [orders |-> os, counter |-> counter, raised |-> "AttributeError", warned |-> FALSE,
        call |-> [called |-> TRUE, returned |-> FALSE, order_id |-> Raise("AttributeError"),
                  ok |-> FALSE, itn |-> ""]]
  ELSE
    LET order_id == DictGet(data, "order_id") IN
    IF HasDuplicate(os, order_id)
    THEN RejectDuplicate(os, counter, order_id)
    ELSE
      LET counter1 == counter + 1
          itn == FormatTrackingNumber(counter1)
          rec == DataToSave(data, ref, order_id, itn, now)
          exc == DataToSaveRaises(rec)
      IN IF exc # "none"
         THEN [orders |-> os, counter |-> counter1, raised |-> exc, warned |-> FALSE,
               call |-> [called |-> TRUE, returned |-> FALSE, order_id |-> order_id,
                         ok |-> FALSE, itn |-> ""]]
         ELSE [orders |-> Append(os, rec), counter |-> counter1, raised |-> "none",
               warned |-> FALSE,
               call |-> [called |-> TRUE, returned |-> TRUE, order_id |-> order_id,
                         ok |-> TRUE, itn |-> itn]]

\* ------------------------------------------------------ extract_order_info
\* A placeholder record returned in place of None.
ExtractFailureFallback == Dict([k \in {"order_id"} |-> Null])

\* The value extract_order_info returns when the try block raises.
ExtractFailureValue == Null

\* extract_order_info(client, email_body): the parsed response, or the error
\* element and None.
extract_order_info(outcome) ==
  IF outcome.kind = "json"
  THEN [value |-> outcome.value, shown |-> {}]
  ELSE [value |-> ExtractFailureValue, shown |-> {"error: Gemini API Extraction Error"}]

\* ---------------------------------------------------------- order history
NotReversed(s) == s

\* list.reverse() applied to display_data.
Reverse(s) == [i \in 1..Len(s) |-> s[Len(s) + 1 - i]]

\* One row of display_data.
HistoryRow(order) ==
  [OrderID |-> order.order_id,
   InternalTrackingNo |-> order.internal_tracking_number,
   OrderDate |-> order.order_date,
   CustomerName |-> order.customer_name,
   TotalAmount |-> order.total_amount,
   DeliveryAddress |-> order.delivery_address,
   ExtractionTime |-> order.extraction_time]

\* Section 6 of the script: the rows handed to st.dataframe (newest first),
\* the element rendered, and st.session_state.orders as the section leaves it.
OrderHistory(os) ==
  IF Len(os) > 0
  THEN [display_data |-> Reverse([i \in 1..Len(os) |-> HistoryRow(os[i])]),
        shown |-> {"dataframe: order history"},
        orders |-> os]
  ELSE [display_data |-> <<>>,
        shown |-> {"info: No order information has been saved"},
        orders |-> os]

\* ----------------------------------------------------------- item details
\* pd.DataFrame(items_list) with the Subtotal column of line 221: one row per
\* item, one column per key of any item, a missing cell is NaN (Null here).
ItemsDataFrame(items_list) ==
  LET n == Len(items_list.e)
      cols == UNION {DOMAIN items_list.e[i].d : i \in 1..n}
      cell(i, c) == DictGet(items_list.e[i], c)
      sub(i) == IF cell(i, "quantity").t = "int" /\ cell(i, "unit_price").t = "int"
                THEN Num(cell(i, "quantity").n * cell(i, "unit_price").n)
                ELSE Null
      allcols == IF {"quantity", "unit_price"} \subseteq cols
                 THEN cols \cup {"Subtotal"} ELSE cols
  IN [i \in 1..n |-> [c \in allcols |-> IF c = "Subtotal" THEN sub(i) ELSE cell(i, c)]]

\* The Subtotal written into the dicts of items_list themselves.
ItemDetailsInPlace(h, ref) ==
  LET items_list == DictGetDefault(h[ref], "items", List(<<>>))
      df == ItemsDataFrame(items_list)
  IN IF Truthy(items_list)
     THEN [heap |-> [h EXCEPT ![ref] =
                       Dict([k \in DOMAIN h[ref].d |->
                               IF k = "items"
                               THEN List([i \in 1..Len(df) |-> Dict(df[i])])
                               ELSE h[ref].d[k]])],
           df_items |-> df,
           shown |-> {"dataframe: item details"}]
     ELSE [heap |-> h, df_items |-> <<>>,
           shown |-> {"warning: No item details were extracted"}]

\* Lines 213-234: the item table (or the warning), and the heap as the
\* rendering leaves it: the DataFrame is a copy, the column is added to the
\* copy, the dicts of extracted_data are not written.
ItemDetails(h, ref) ==
  LET items_list == DictGetDefault(h[ref], "items", List(<<>>))
  IN IF Truthy(items_list)
     THEN [heap |-> h, df_items |-> ItemsDataFrame(items_list),
           shown |-> {"dataframe: item details"}]
     ELSE [heap |-> h, df_items |-> <<>>,
           shown |-> {"warning: No item details were extracted"}]

\* ------------------------------------------------------------- script runs
\* Section 2 of the script on the first run of a session, followed by the
\* rest of the script with no button pressed.
Init ==
  /\ orders = <<>>
  /\ internal_tracking_counter = 0
  /\ GEMINI_API_KEY = ""
  /\ gemini_client = "absent"
  /\ recipient_email = "relation@example.com"
  /\ heap = <<>>
  /\ extracted_data = 0
  /\ pc = "idle"
  /\ trigger = "load"
  /\ shown = OrderHistory(<<>>).shown
  /\ call = NoCall
  /\ raised = "none"
  /\ df_items = <<>>
  /\ display_data = <<>>

\* The end of a script run.  `history` tells whether the run reaches section 6
\* (it does not after st.stop() or an uncaught exception).  The objects of the
\* run that no entry refers to are gone with the run's namespace.
EndRun(os, counter, h, sh, cl, exc, df, history) ==
  LET hist == OrderHistory(os) IN
  /\ orders' = (IF history THEN hist.orders ELSE os)
  /\ internal_tracking_counter' = counter
  /\ heap' = h
  /\ extracted_data' = 0
  /\ pc' = "idle"
  /\ shown' = (IF history THEN sh \cup hist.shown ELSE sh)
  /\ call' = cl
  /\ raised' = exc
  /\ df_items' = df
  /\ display_data' = (IF history THEN hist.display_data ELSE <<>>)

\* Lines 160-166: the pre-execution checks, "pass" or the element shown before
\* st.stop().
PreExecutionChecks(email_input) ==
  IF gemini_client # "client" THEN "error: Gemini API Key is not set"
  ELSE IF email_input = "" THEN "warning: Please enter the email body"
  ELSE "pass"

\* Lines 158-166: the extract button is pressed and a pre-execution check
\* stops the run.
PressExtractStopped(email_input) ==
  /\ pc = "idle"
  /\ PreExecutionChecks(email_input) # "pass"
  /\ trigger' = "extract"
  /\ UNCHANGED <<GEMINI_API_KEY, gemini_client, recipient_email>>
  /\ EndRun(orders, internal_tracking_counter, heap, {PreExecutionChecks(email_input)},
            NoCall, "none", <<>>, FALSE)

\* Lines 158-187: the extract button is pressed with email_input in the text
\* area and the checks pass; the service answers with `outcome`; `now` is the
\* clock reading.
PressExtract(email_input, outcome, now) ==
  /\ pc = "idle"
  /\ PreExecutionChecks(email_input) = "pass"
  /\ trigger' = "extract"
  /\ UNCHANGED <<GEMINI_API_KEY, gemini_client, recipient_email>>
  /\ LET ex == extract_order_info(outcome) IN
       IF ~Truthy(ex.value)
       THEN EndRun(orders, internal_tracking_counter, heap, ex.shown, NoCall, "none",
                   <<>>, TRUE)
       ELSE
         LET ref == Len(heap) + 1
             heap1 == Append(heap, ex.value)
             sh1 == ex.shown \cup {"success: Information extraction successful", "json"}
             r == save_order_to_state(orders, internal_tracking_counter, ex.value, ref, now)
         IN IF r.raised # "none"
            THEN EndRun(r.orders, r.counter, heap, sh1 \cup {"exception"}, r.call,
                        r.raised, <<>>, FALSE)
            ELSE IF ~r.call.ok
            THEN EndRun(r.orders, r.counter, heap,
                        sh1 \cup {"warning: Order ID already exists",
                                  "warning: Order Processing Skipped"},
                        r.call, "none", <<>>, TRUE)
            ELSE /\ orders' = r.orders
                 /\ internal_tracking_counter' = r.counter
                 /\ heap' = heap1
                 /\ extracted_data' = ref
                 /\ pc' = "saved"
                 /\ shown' = sh1
                 /\ call' = r.call
                 /\ raised' = "none"
                 /\ df_items' = <<>>
                 /\ display_data' = <<>>

\* Lines 189-234 and section 6: the rest of the run after a successful save.
ContinueSaved ==
  /\ pc = "saved"
  /\ UNCHANGED <<GEMINI_API_KEY, gemini_client, recipient_email, trigger>>
  /\ LET data == heap[extracted_data]
         sh1 == shown \cup {"success: order information saved"}
         total == DictGetDefault(data, "total_amount", Str("N/A"))
         fmt == FormatThousands(total)
     IN IF fmt # "ok"
        THEN EndRun(orders, internal_tracking_counter, heap, sh1 \cup {"exception"}, call,
                    fmt, <<>>, FALSE)
        ELSE LET it == ItemDetails(heap, extracted_data)
             IN EndRun(orders, internal_tracking_counter, it.heap,
                       sh1 \cup {"info: New Order Alert"} \cup it.shown, call, "none",
                       it.df_items, TRUE)

\* Lines 121-131: the sidebar button is pressed with api_key_input in the key
\* field; `init_ok` tells whether genai.Client(...) returns or raises.
PressApplyKey(api_key_input, init_ok) ==
  /\ pc = "idle"
  /\ trigger' = "apply_key"
  /\ GEMINI_API_KEY' = api_key_input
  /\ gemini_client' = (IF api_key_input = "" THEN gemini_client
                       ELSE IF init_ok THEN "client" ELSE "None")
  /\ UNCHANGED recipient_email
  /\ EndRun(orders, internal_tracking_counter, heap,
            {IF api_key_input = "" THEN "warning: Please enter the API key"
             ELSE IF init_ok THEN "success: Gemini client initialized"
             ELSE "error: Failed to initialize API Key"},
            NoCall, "none", <<>>, TRUE)

\* Lines 136-142: the recipient field is edited, which reruns the script.
EditRecipient(recipient_email_input) ==
  /\ pc = "idle"
  /\ recipient_email_input # recipient_email
  /\ trigger' = "recipient"
  /\ recipient_email' = recipient_email_input
  /\ UNCHANGED <<GEMINI_API_KEY, gemini_client>>
  /\ EndRun(orders, internal_tracking_counter, heap, {}, NoCall, "none", <<>>, TRUE)

Next ==
  \/ \E email_input \in EmailInputs : PressExtractStopped(email_input)
  \/ \E email_input \in EmailInputs, outcome \in ServiceOutcomes, now \in TimeStamps :
       PressExtract(email_input, outcome, now)
  \/ ContinueSaved
  \/ \E api_key_input \in ApiKeyInputs, init_ok \in BOOLEAN :
       PressApplyKey(api_key_input, init_ok)
  \/ \E recipient_email_input \in RecipientInputs : EditRecipient(recipient_email_input)

Spec == Init /\ [][Next]_vars

\* ------------------------------------------------------------- properties
\* The elements by which a run of the extract handler reports its outcome.
SavedElement == "success: order information saved"
DuplicateElement == "warning: Order Processing Skipped"
ExtractionFailedElement == "error: Gemini API Extraction Error"

\* The elements of a press that yields no parsed candidate.
NoCandidateElements ==
  {"error: Gemini API Key is not set", "warning: Please enter the email body",
   ExtractionFailedElement}

HistoryElements ==
  {"dataframe: order history", "info: No order information has been saved"}

NullEntries == {i \in 1..Len(orders) : orders[i].order_id = Null}

\* C1: no two entries of orders have the same non-null order_id.
C1_UniqueOrderIds ==
  \A i, j \in 1..Len(orders) :
    (i # j /\ orders[i].order_id # Null) => orders[i].order_id # orders[j].order_id

C1_Witness ==
  /\ pc = "idle"
  /\ Len(orders) >= 2
  /\ orders[1].order_id # Null
  /\ orders[2].order_id # Null
  /\ call.returned /\ ~call.ok
  /\ call.order_id = orders[1].order_id

\* C2: the counter equals the number of entries (the calls that returned
\* success), rejected calls included in the history, and the i-th entry
\* carries "ITN-" followed by i zero-padded to 7 digits.
C2_CounterAndTrackingNumbers ==
  /\ internal_tracking_counter = Len(orders)
  /\ \A i \in 1..Len(orders) :
       i < 10 => orders[i].internal_tracking_number = "ITN-000000" \o ToString(i)

C2_Witness ==
  /\ pc = "idle"
  /\ Len(orders) = 3
  /\ internal_tracking_counter = 3
  /\ orders[3].internal_tracking_number = "ITN-0000003"
  /\ call.returned /\ ~call.ok

\* C3: a call of save_order_to_state with a candidate whose order_id equals
\* that of an existing entry returns (False, "Not Assigned (Duplicate Order)")
\* and leaves orders and the counter as they were.
C3_DuplicateLeavesLedger ==
  [][(/\ pc = "idle"
      /\ call'.called
      /\ \E i \in 1..Len(orders) : orders[i].order_id = call'.order_id)
     => (/\ call'.returned
         /\ ~call'.ok
         /\ call'.itn = "Not Assigned (Duplicate Order)"
         /\ orders' = orders
         /\ heap' = heap
         /\ internal_tracking_counter' = internal_tracking_counter)]_vars

C3_Witness ==
  /\ pc = "idle"
  /\ Len(orders) = 1
  /\ internal_tracking_counter = 1
  /\ call.returned /\ ~call.ok
  /\ call.order_id # Null
  /\ DuplicateElement \in shown

\* C4: a press of the extract button that yields no parsed candidate (client
\* not configured, empty email text, extract_order_info failed) does not call
\* save_order_to_state and leaves orders and the counter unchanged.
C4_NoCandidateNoMutation ==
  [][(/\ pc = "idle"
      /\ trigger' = "extract"
      /\ shown' \cap NoCandidateElements # {})
     => (/\ call' = NoCall
         /\ orders' = orders
         /\ heap' = heap
         /\ internal_tracking_counter' = internal_tracking_counter)]_vars

C4_Witness ==
  /\ pc = "idle"
  /\ trigger = "extract"
  /\ ExtractionFailedElement \in shown
  /\ call = NoCall
  /\ Len(orders) >= 1

\* C5: handling a parseable candidate (a JSON object) with null or absent
\* fields raises no error, and after an admission the run reaches its end.
C5_MissingFieldsRaiseNothing ==
  (pc = "idle" /\ call.called /\ call.order_id.t # "raise")
    => (raised = "none" /\ (call.ok => shown \cap HistoryElements # {}))

\* C6: a press of the extract button with a configured client and a non-empty
\* email text ends with exactly one of: order saved, duplicate rejected,
\* extraction failed.
C6_ExactlyOneOutcome ==
  (/\ pc = "idle"
   /\ trigger = "extract"
   /\ "error: Gemini API Key is not set" \notin shown
   /\ "warning: Please enter the email body" \notin shown)
    => Cardinality(shown \cap {SavedElement, DuplicateElement, ExtractionFailedElement}) = 1

\* C7: in every step the previous orders is a prefix of the next orders, and
\* the raw candidate each entry refers to is unchanged.
C7_AppendOnly ==
  [][\A i \in 1..Len(orders) :
       /\ i <= Len(orders')
       /\ orders'[i] = orders[i]
       /\ heap'[orders'[i].raw_json] = heap[orders[i].raw_json]]_vars

C7_Witness ==
  /\ pc = "idle"
  /\ Len(orders) >= 2
  /\ "dataframe: item details" \in shown
  /\ recipient_email # "relation@example.com"
  /\ gemini_client = "client"

\* C8: a run that renders the history shows one row per entry, newest first,
\* and rendering it changes neither orders nor the counter.
C8_HistoryNewestFirst ==
  [][(pc' = "idle" /\ shown' \cap HistoryElements # {})
     => (/\ Len(display_data') = Len(orders')
         /\ \A i \in 1..Len(orders') :
              LET o == orders'[Len(orders') + 1 - i]
                  row == display_data'[i]
              IN /\ row.OrderID = o.order_id
                 /\ row.InternalTrackingNo = o.internal_tracking_number
                 /\ row.OrderDate = o.order_date
                 /\ row.CustomerName = o.customer_name
                 /\ row.TotalAmount = o.total_amount
                 /\ row.DeliveryAddress = o.delivery_address
                 /\ row.ExtractionTime = o.extraction_time
         /\ orders' = orders
         /\ internal_tracking_counter' = internal_tracking_counter)]_vars

C8_Witness ==
  /\ pc = "idle"
  /\ "dataframe: order history" \in shown
  /\ Len(display_data) = 3
  /\ display_data[1].InternalTrackingNo = "ITN-0000003"
  /\ display_data[3].InternalTrackingNo = "ITN-0000001"

\* C9: once an entry with null order_id exists, a candidate whose order_id is
\* null or absent is rejected, and orders never holds two entries with a null
\* order_id.
C9_NullOrderIdIsAValue ==
  /\ [](Cardinality(NullEntries) <= 1)
  /\ [][(pc = "idle" /\ call'.called /\ call'.order_id = Null /\ NullEntries # {})
        => (call'.returned /\ ~call'.ok /\ orders' = orders)]_vars

C9_Witness ==
  /\ pc = "idle"
  /\ NullEntries # {}
  /\ call.returned /\ ~call.ok
  /\ call.order_id = Null

====
